---- MODULE Spec2Model ----
(***************************************************************************)
(* FastAPI JWT authentication service: the authentication middleware       *)
(* (middleware.py), the route layer (main.py), the per-request database    *)
(* session (database.py) and the tables with their constraints             *)
(* (models.py).                                                            *)
(*                                                                         *)
(* Values.  Strings are TLA+ strings.  Python's None is the reserved       *)
(* string None, which no input domain contains.  A JWT is a record of its  *)
(* claims, its exp claim (minutes on the model's clock) and whether its    *)
(* signature verifies under SECRET_KEY.  An Authorization header is the    *)
(* sequence of its space-separated fields; <<>> is "no header".            *)
(* first_name / last_name are carried through unchanged by every handler   *)
(* and are left out of the records.                                        *)
(***************************************************************************)
EXTENDS Integers, Sequences, FiniteSets, TLC

VARIABLES
    users,      \* table users: committed rows [id, username, email, password]
    books,      \* table books: committed rows [id, title, author, price]
    posts,      \* table posts: committed rows [id, title, content, user_id]
    nextBook,   \* number of Book ids handed out so far (uuid4 never repeats)
    nextPost,   \* number of Post ids handed out so far
    held,       \* tokens issued by the service that clients still hold
    now,        \* wall clock, in minutes
    last,       \* the most recent request and the response it got
    reg,        \* in-flight POST /register/ requests, one per worker thread
    sessions,   \* every session get_db has handed out
    nextUid     \* number of User ids handed out so far

vars == <<users, books, posts, nextBook, nextPost, held, now, last, reg, sessions, nextUid>>

None == "<None>"

-----------------------------------------------------------------------------
(* Bounds of the model *)

MaxUsers == 2
MaxTicks == 2
MaxWorkers == 2
MaxRequests == 2
MaxBooks == 1
MaxPosts == 1
TickMinutes == 200

(* Program constants *)

ACCESS_TOKEN_EXPIRE_MINUTES == 30
REFRESH_TOKEN_EXPIRE_MINUTES == 300

-----------------------------------------------------------------------------
(* Strings *)

StartsWith(s, p) == Len(s) >= Len(p) /\ SubSeq(s, 1, Len(p)) = p

-----------------------------------------------------------------------------
(* auth.py: passwords and tokens *)

get_password_hash(p) == "hash:" \o p

verify_password(p, h) == h = get_password_hash(p)

NoClaims == [username |-> None, email |-> None, user_id |-> None, sub |-> None]

create_token(data, expires_delta) ==
    [claims |-> data, exp |-> now + expires_delta, sig |-> TRUE]

create_access_token(data, expires_delta) == create_token(data, expires_delta)

create_refresh_token(data, expires_delta) == create_token(data, expires_delta)

\* jwt.decode: the payload when the signature verifies and exp has not passed
jwt_decode(token) ==
    IF token.sig /\ now <= token.exp
    THEN [ok |-> TRUE, payload |-> token.claims]
    ELSE [ok |-> FALSE, payload |-> NoClaims]

decode_token(token) == jwt_decode(token)

-----------------------------------------------------------------------------
(* middleware.py: AuthMiddleware.dispatch *)

public_routes == <<"/", "/login/", "/register/", "/docs", "/redoc", "/openapi.json">>

InPublicRoutes(path) == \E i \in 1..Len(public_routes) : public_routes[i] = path

\* startswith tried against every entry, "/" included
PrefixOfAnyRoute(path) ==
    \E i \in 1..Len(public_routes) : StartsWith(path, public_routes[i])

PrefixOfPublicRoute(path) ==
    \E i \in 2..Len(public_routes) : StartsWith(path, public_routes[i])

IsPublic(path) == InPublicRoutes(path) \/ PrefixOfPublicRoute(path)

\* not (not auth_header or not auth_header.startswith("Bearer "))
HasBearerPrefix(auth_header) == Len(auth_header) >= 2 /\ auth_header[1] = "Bearer"

\* dispatch without the signature and expiry check of lines 29-40
dispatch_unverified(path, auth_header) ==
    IF IsPublic(path)
    THEN [mw |-> "public", status |-> 0, detail |-> None, user |-> NoClaims]
    ELSE IF ~HasBearerPrefix(auth_header)
    THEN [mw |-> "rejected", status |-> 401,
          detail |-> "Authorization header missing or invalid", user |-> NoClaims]
    ELSE [mw |-> "authenticated", status |-> 0, detail |-> None,
          user |-> auth_header[2].claims]

\* The middleware's verdict on a request: mw is "public", "authenticated" or
\* "rejected"; user is what it stores in request.state.user.
dispatch(path, auth_header) ==
    IF IsPublic(path)
    THEN [mw |-> "public", status |-> 0, detail |-> None, user |-> NoClaims]
    ELSE IF ~HasBearerPrefix(auth_header)
    THEN [mw |-> "rejected", status |-> 401,
          detail |-> "Authorization header missing or invalid", user |-> NoClaims]
    ELSE IF ~jwt_decode(auth_header[2]).ok
    THEN [mw |-> "rejected", status |-> 401,
          detail |-> "Invalid or expired token", user |-> NoClaims]
    ELSE [mw |-> "authenticated", status |-> 0, detail |-> None,
          user |-> jwt_decode(auth_header[2]).payload]

Lower(s) == IF s = "Bearer" THEN "bearer" ELSE s

\* security = HTTPBearer(): 403 unless the scheme is bearer and credentials follow
security(auth_header) == Len(auth_header) >= 2 /\ Lower(auth_header[1]) = "bearer"

-----------------------------------------------------------------------------
(* Requests and responses *)

Response(method, path, auth, d, handler, status, detail, req, data) ==
    [method |-> method, path |-> path, auth |-> auth, mw |-> d.mw,
     handler |-> handler, status |-> status, detail |-> detail,
     req |-> req, data |-> data]

\* A response produced by the middleware or the security dependency: no handler ran
Refused(method, path, auth, d, req) ==
    IF d.mw = "rejected"
    THEN Response(method, path, auth, d, "none", d.status, d.detail, req, <<>>)
    ELSE Response(method, path, auth, d, "none", 403, "Not authenticated", req, <<>>)

Stores == <<users, books, posts, nextBook, nextPost, nextUid>>

-----------------------------------------------------------------------------
(* Inputs *)

Usernames == {"alice", "bob@x.io"}
Emails == {"al@x.io", "bob@x.io"}
Passwords == {"pw1", "pw2"}

\* UserCreate bodies: email is a syntactically valid address, username any string
UserCreate == [username : Usernames, email : Emails, password1 : Passwords]

\* UserLogin bodies
UserLogin == [username_or_email : Usernames \cup Emails \cup {"nobody"}, password : Passwords]

\* The clients of the specifications that need one account, or two
OneUser == {[username |-> "alice", email |-> "al@x.io", password1 |-> "pw1"]}
OneLogin == {[username_or_email |-> "alice", password |-> "pw1"]}
TwoUsers == OneUser \cup {[username |-> "bob", email |-> "bob@x.io", password1 |-> "pw2"]}
TwoLogins == OneLogin \cup {[username_or_email |-> "bob@x.io", password |-> "pw2"]}

\* A token the service never signed
Forged ==
    [claims |-> [username |-> "alice", email |-> "al@x.io", user_id |-> "1", sub |-> None],
     exp |-> MaxTicks * TickMinutes + REFRESH_TOKEN_EXPIRE_MINUTES, sig |-> FALSE]

Presentable == held \cup {Forged}

\* Authorization headers a client may send
AuthHeaders ==
    {<<>>, <<"Bearer">>, <<"Basic", Forged>>} \cup {<<"Bearer", t>> : t \in Presentable}

\* Headers sent to the endpoints whose handlers never read the header
AnyHeader == {<<>>, <<"Bearer", Forged>>}

\* What clients hold after a pair is issued: a client stores the pair it was
\* sent in place of the one it had
Keep(new) == new

-----------------------------------------------------------------------------
(* main.py: register_user, the statements of one request *)

NoRow == [id |-> None, username |-> None, email |-> None, password |-> None]

\* .first() of a query without ORDER BY: any matching row, or None
First(rows) == IF rows = {} THEN {NoRow} ELSE rows

\* line 27: filter((User.username == user.username) | (User.email == user.email))
existing_user(store, user) ==
    {u \in store : u.username = user.username \/ u.email = user.email}

\* lines 31-38: the row db.add stages
db_user_row(user, id) ==
    [id |-> id, username |-> user.username, email |-> user.email,
     password |-> get_password_hash(user.password1)]

\* The users table without its unique indexes
NoUniqueIndex(store, row) == FALSE

\* models.py: unique=True on users.username and on users.email
UniqueViolation(store, row) ==
    \E u \in store : u.username = row.username \/ u.email = row.email

UserResponse(row) == [id |-> row.id, username |-> row.username, email |-> row.email]

\* POST /register/ run without interleaving
register_user(auth, user) ==
    \E d \in {dispatch("/register/", auth)} :
    LET row == db_user_row(user, ToString(nextUid + 1))
    IN  /\ UNCHANGED <<books, posts, nextBook, nextPost, held, now, reg, sessions>>
        /\ IF d.mw = "rejected"
           THEN /\ last' = Refused("POST", "/register/", auth, d, user)
                /\ UNCHANGED <<users, nextUid>>
           ELSE IF existing_user(users, user) # {}
           THEN /\ last' = Response("POST", "/register/", auth, d, "register_user", 400,
                                    "Username or email already registered", user, <<>>)
                /\ UNCHANGED <<users, nextUid>>
           ELSE /\ nextUid < MaxUsers
                /\ ~UniqueViolation(users, row)
                /\ users' = users \cup {row}
                /\ nextUid' = nextUid + 1
                /\ last' = Response("POST", "/register/", auth, d, "register_user", 200,
                                    None, user, UserResponse(row))

-----------------------------------------------------------------------------
(* main.py: login_user *)

login_claims(db_user) ==
    [username |-> db_user.username, email |-> db_user.email,
     user_id |-> db_user.id, sub |-> None]

login_user(auth, user) ==
    \E d \in {dispatch("/login/", auth)} :
    LET rows == {u \in users : u.username = user.username_or_email
                                \/ u.email = user.username_or_email}
    IN  /\ UNCHANGED <<Stores, now, reg, sessions>>
        /\ IF d.mw = "rejected"
           THEN /\ last' = Refused("POST", "/login/", auth, d, user)
                /\ UNCHANGED held
           ELSE \E db_user \in First(rows) :
                IF db_user = NoRow \/ ~verify_password(user.password, db_user.password)
                THEN /\ last' = Response("POST", "/login/", auth, d, "login_user", 401,
                                         "Incorrect username or password", user, <<>>)
                     /\ UNCHANGED held
                ELSE LET user_data == login_claims(db_user)
                         access_token ==
                             create_access_token(user_data, ACCESS_TOKEN_EXPIRE_MINUTES)
                         refresh_token ==
                             create_refresh_token(user_data, REFRESH_TOKEN_EXPIRE_MINUTES)
                     IN  /\ held' = Keep({access_token, refresh_token})
                         /\ last' = Response("POST", "/login/", auth, d, "login_user", 200,
                                             None, user,
                                             [access_token |-> access_token,
                                              refresh_token |-> refresh_token,
                                              username |-> db_user.username,
                                              email |-> db_user.email])

-----------------------------------------------------------------------------
(* main.py: profile *)

profile(auth) ==
    \E d \in {dispatch("/profile/", auth)} :
    LET user == d.user
    IN  /\ UNCHANGED <<Stores, held, now, reg, sessions>>
        /\ IF d.mw = "rejected" \/ ~security(auth)
           THEN last' = Refused("GET", "/profile/", auth, d, <<>>)
           ELSE IF user.username = None \/ user.email = None
           THEN \* user["username"] raises KeyError
                last' = Response("GET", "/profile/", auth, d, "profile", 500,
                                 "Internal Server Error", <<>>, <<>>)
           ELSE last' = Response("GET", "/profile/", auth, d, "profile", 200, None, <<>>,
                                 [username |-> user.username, email |-> user.email])

-----------------------------------------------------------------------------
(* main.py: refresh_api_token *)

refresh_claims(username) ==
    [username |-> None, email |-> None, user_id |-> None, sub |-> username]

refresh_api_token(auth, request) ==
    \E d \in {dispatch("/refresh_token", auth)} :
    LET payload == decode_token(request.refresh_token)
        username == payload.payload.username
    IN  /\ UNCHANGED <<Stores, now, reg, sessions>>
        /\ IF d.mw = "rejected"
           THEN /\ last' = Refused("POST", "/refresh_token", auth, d, request)
                /\ UNCHANGED held
           ELSE IF ~payload.ok \/ username = None
           THEN /\ last' = Response("POST", "/refresh_token", auth, d, "refresh_api_token",
                                    401, "Invalid refresh token", request, <<>>)
                /\ UNCHANGED held
           ELSE LET new_access_token ==
                        create_access_token(refresh_claims(username),
                                            ACCESS_TOKEN_EXPIRE_MINUTES)
                    new_refresh_token ==
                        create_refresh_token(refresh_claims(username),
                                             REFRESH_TOKEN_EXPIRE_MINUTES)
                IN  /\ held' = Keep({new_access_token, new_refresh_token})
                    /\ last' = Response("POST", "/refresh_token", auth, d,
                                        "refresh_api_token", 200,
                                        "Token Refreshed Successfully", request,
                                        [access_token |-> new_access_token,
                                         refresh_token |-> new_refresh_token])

-----------------------------------------------------------------------------
(* main.py: root, and the paths no handler of main.py serves *)

root(auth) ==
    \E d \in {dispatch("/", auth)} :
        /\ UNCHANGED <<Stores, held, now, reg, sessions>>
        /\ IF d.mw = "rejected"
           THEN last' = Refused("GET", "/", auth, d, <<>>)
           ELSE last' = Response("GET", "/", auth, d, "root", 200, None, <<>>,
                                 [message |-> "Hello World"])

\* Pages FastAPI itself serves
FrameworkPages == {"/docs", "/redoc", "/openapi.json"}

OtherPaths ==
    FrameworkPages \cup {"/docsify", "/login", "/login/x", "/register/x", "/api/unknown"}

other_path(path, auth) ==
    \E d \in {dispatch(path, auth)} :
        /\ UNCHANGED <<Stores, held, now, reg, sessions>>
        /\ IF d.mw = "rejected"
           THEN last' = Refused("GET", path, auth, d, <<>>)
           ELSE IF path \in FrameworkPages
           THEN last' = Response("GET", path, auth, d, "framework", 200, None, <<>>, <<>>)
           ELSE last' = Response("GET", path, auth, d, "none", 404, "Not Found", <<>>, <<>>)

-----------------------------------------------------------------------------
(* main.py: the book handlers.  A request body is a function over the fields *)
(* the client supplied; a field it left out reads as None.                   *)

BookPath(id) == "/api/books/" \o id \o "/"

BookRow(id, title, author, price) ==
    [id |-> id, title |-> title, author |-> author, price |-> price]

\* db.query(Book).filter(Book.id == id)
BooksById(id) == {b \in books : b.id = id}

NoBook == BookRow(None, None, None, 0)

get_books(auth) ==
    \E d \in {dispatch("/api/books/", auth)} :
        /\ UNCHANGED <<Stores, held, now, reg, sessions>>
        /\ IF d.mw = "rejected" \/ ~security(auth)
           THEN last' = Refused("GET", "/api/books/", auth, d, <<>>)
           ELSE last' = Response("GET", "/api/books/", auth, d, "get_books", 200, None,
                                 <<>>, books)

add_book(auth, book) ==
    \E d \in {dispatch("/api/books/", auth)} :
    LET new_book == BookRow(ToString(nextBook + 1), book.title, book.author, book.price)
    IN  /\ UNCHANGED <<users, posts, nextPost, nextUid, held, now, reg, sessions>>
        /\ IF d.mw = "rejected" \/ ~security(auth)
           THEN /\ last' = Refused("POST", "/api/books/", auth, d, book)
                /\ UNCHANGED <<books, nextBook>>
           ELSE /\ nextBook < MaxBooks
                /\ books' = books \cup {new_book}
                /\ nextBook' = nextBook + 1
                /\ last' = Response("POST", "/api/books/", auth, d, "add_book", 200, None,
                                    book, new_book)

get_book(auth, id) ==
    \E d \in {dispatch(BookPath(id), auth)} :
        /\ UNCHANGED <<Stores, held, now, reg, sessions>>
        /\ IF d.mw = "rejected" \/ ~security(auth)
           THEN last' = Refused("GET", BookPath(id), auth, d, id)
           ELSE \E db_book \in (IF BooksById(id) = {} THEN {NoBook} ELSE BooksById(id)) :
                IF db_book = NoBook
                THEN last' = Response("GET", BookPath(id), auth, d, "get_book", 404,
                                      "Book not found", id, <<>>)
                ELSE last' = Response("GET", BookPath(id), auth, d, "get_book", 200, None,
                                      id, db_book)

put_book(auth, id, book) ==
    \E d \in {dispatch(BookPath(id), auth)} :
        /\ UNCHANGED <<users, posts, nextBook, nextPost, nextUid, held, now, reg, sessions>>
        /\ IF d.mw = "rejected" \/ ~security(auth)
           THEN /\ last' = Refused("PUT", BookPath(id), auth, d, <<id, book>>)
                /\ UNCHANGED books
           ELSE \E db_book \in (IF BooksById(id) = {} THEN {NoBook} ELSE BooksById(id)) :
                IF db_book = NoBook
                THEN /\ last' = Response("PUT", BookPath(id), auth, d, "put_book", 404,
                                         "Book not found", <<id, book>>, <<>>)
                     /\ UNCHANGED books
                ELSE LET updated == BookRow(db_book.id, book.title, book.author, book.price)
                     IN  /\ books' = (books \ {db_book}) \cup {updated}
                         /\ last' = Response("PUT", BookPath(id), auth, d, "put_book", 200,
                                             None, <<id, book>>, updated)

\* book.<field> of a BookUpdate: None when the client left the field out
Supplied(body, field) == field \in DOMAIN body

\* if book.title: / if book.author:  (None and "" are falsy)
TruthyStr(body, field) == Supplied(body, field) /\ body[field] # ""

\* if book.price is not None:
NotNoneNum(body, field) == Supplied(body, field)

\* if book.price:  (None and 0 are falsy)
TruthyNum(body, field) == Supplied(body, field) /\ body[field] # 0

\* lines 145-150
patched_book(db_book, book) ==
    BookRow(db_book.id,
            IF TruthyStr(book, "title") THEN book.title ELSE db_book.title,
            IF TruthyStr(book, "author") THEN book.author ELSE db_book.author,
            IF TruthyNum(book, "price") THEN book.price ELSE db_book.price)

patch_book(auth, id, book) ==
    \E d \in {dispatch(BookPath(id), auth)} :
        /\ UNCHANGED <<users, posts, nextBook, nextPost, nextUid, held, now, reg, sessions>>
        /\ IF d.mw = "rejected" \/ ~security(auth)
           THEN /\ last' = Refused("PATCH", BookPath(id), auth, d, <<id, book>>)
                /\ UNCHANGED books
           ELSE \E db_book \in (IF BooksById(id) = {} THEN {NoBook} ELSE BooksById(id)) :
                IF db_book = NoBook
                THEN /\ last' = Response("PATCH", BookPath(id), auth, d, "patch_book", 404,
                                         "Book not found", <<id, book>>, <<>>)
                     /\ UNCHANGED books
                ELSE /\ books' = (books \ {db_book}) \cup {patched_book(db_book, book)}
                     /\ last' = Response("PATCH", BookPath(id), auth, d, "patch_book", 200,
                                         None, <<id, book>>, patched_book(db_book, book))

delete_book(auth, id) ==
    \E d \in {dispatch("/api/books/" \o id, auth)} :
        /\ UNCHANGED <<users, posts, nextBook, nextPost, nextUid, held, now, reg, sessions>>
        /\ IF d.mw = "rejected" \/ ~security(auth)
           THEN /\ last' = Refused("DELETE", "/api/books/" \o id, auth, d, id)
                /\ UNCHANGED books
           ELSE \E db_book \in (IF BooksById(id) = {} THEN {NoBook} ELSE BooksById(id)) :
                IF db_book = NoBook
                THEN /\ last' = Response("DELETE", "/api/books/" \o id, auth, d,
                                         "delete_book", 404, "Book not found", id, <<>>)
                     /\ UNCHANGED books
                ELSE /\ books' = books \ {db_book}
                     /\ last' = Response("DELETE", "/api/books/" \o id, auth, d,
                                         "delete_book", 200, "Book deleted successfully",
                                         id, <<>>)

-----------------------------------------------------------------------------
(* main.py: the post handlers *)

PostPath(id) == "/api/posts/" \o id \o "/"

PostRow(id, title, content, user_id) ==
    [id |-> id, title |-> title, content |-> content, user_id |-> user_id]

NoPost == PostRow(None, None, None, None)

\* db.query(Post).filter(Post.id == id)
PostsById(id, user_id) == {p \in posts : p.id = id}

\* db.query(Post).filter(Post.id == id, Post.user_id == user_id).  A user_id of
\* None compares as SQL NULL and matches no row.
PostsByIdAndOwner(id, user_id) ==
    {p \in posts : p.id = id /\ user_id # None /\ p.user_id = user_id}

\* db.query(Post).filter(Post.user_id == request.state.user.get('user_id')).
\* == None is rendered IS NULL; user_id is NOT NULL, so that matches no row either.
PostsOfOwner(user_id) == {p \in posts : p.user_id = user_id}

\* post.author.username of the rows returned
PostItem(p) ==
    [id |-> p.id, title |-> p.title, content |-> p.content,
     author |-> (CHOOSE u \in users : u.id = p.user_id).username]

get_posts(auth) ==
    \E d \in {dispatch("/api/posts/", auth)} :
    LET db_posts == PostsOfOwner(d.user.user_id)
    IN  /\ UNCHANGED <<Stores, held, now, reg, sessions>>
        /\ IF d.mw = "rejected" \/ ~security(auth)
           THEN last' = Refused("GET", "/api/posts/", auth, d, <<>>)
           ELSE last' = Response("GET", "/api/posts/", auth, d, "get_posts", 200, None,
                                 <<>>, {PostItem(p) : p \in db_posts})

add_post(auth, post) ==
    \E d \in {dispatch("/api/posts/", auth)} :
    LET user_id == d.user.user_id
        new_post == PostRow(ToString(nextPost + 1), post.title, post.content, user_id)
    IN  /\ UNCHANGED <<users, books, nextBook, nextUid, held, now, reg, sessions>>
        /\ IF d.mw = "rejected" \/ ~security(auth)
           THEN /\ last' = Refused("POST", "/api/posts/", auth, d, post)
                /\ UNCHANGED <<posts, nextPost>>
           ELSE IF user_id = None
           THEN \* posts.user_id is NOT NULL: the commit raises IntegrityError
                /\ last' = Response("POST", "/api/posts/", auth, d, "add_post", 500,
                                    "Internal Server Error", post, <<>>)
                /\ UNCHANGED <<posts, nextPost>>
           ELSE /\ nextPost < MaxPosts
                /\ posts' = posts \cup {new_post}
                /\ nextPost' = nextPost + 1
                /\ last' = Response("POST", "/api/posts/", auth, d, "add_post", 200, None,
                                    post, new_post)

put_post(auth, id, post) ==
    \E d \in {dispatch(PostPath(id), auth)} :
    LET user_id == d.user.user_id
        rows == PostsByIdAndOwner(id, user_id)
    IN  /\ UNCHANGED <<users, books, nextBook, nextPost, nextUid, held, now, reg, sessions>>
        /\ IF d.mw = "rejected" \/ ~security(auth)
           THEN /\ last' = Refused("PUT", PostPath(id), auth, d, <<id, post>>)
                /\ UNCHANGED posts
           ELSE \E db_post \in (IF rows = {} THEN {NoPost} ELSE rows) :
                IF db_post = NoPost
                THEN /\ last' = Response("PUT", PostPath(id), auth, d, "put_post", 404,
                                         "Post not found", <<id, post>>, <<>>)
                     /\ UNCHANGED posts
                ELSE LET updated ==
                             PostRow(db_post.id, post.title, post.content, db_post.user_id)
                     IN  /\ posts' = (posts \ {db_post}) \cup {updated}
                         /\ last' = Response("PUT", PostPath(id), auth, d, "put_post", 200,
                                             None, <<id, post>>, updated)

\* post.dict(exclude_unset=True), then setattr for each field it holds
patched_post(db_post, post) ==
    PostRow(db_post.id,
            IF Supplied(post, "title") THEN post.title ELSE db_post.title,
            IF Supplied(post, "content") THEN post.content ELSE db_post.content,
            db_post.user_id)

patch_post(auth, id, post) ==
    \E d \in {dispatch(PostPath(id), auth)} :
    LET user_id == d.user.user_id
        rows == PostsByIdAndOwner(id, user_id)
    IN  /\ UNCHANGED <<users, books, nextBook, nextPost, nextUid, held, now, reg, sessions>>
        /\ IF d.mw = "rejected" \/ ~security(auth)
           THEN /\ last' = Refused("PATCH", PostPath(id), auth, d, <<id, post>>)
                /\ UNCHANGED posts
           ELSE \E db_post \in (IF rows = {} THEN {NoPost} ELSE rows) :
                IF db_post = NoPost
                THEN /\ last' = Response("PATCH", PostPath(id), auth, d, "patch_post", 404,
                                         "Post not found", <<id, post>>, <<>>)
                     /\ UNCHANGED posts
                ELSE /\ posts' = (posts \ {db_post}) \cup {patched_post(db_post, post)}
                     /\ last' = Response("PATCH", PostPath(id), auth, d, "patch_post", 200,
                                         None, <<id, post>>, patched_post(db_post, post))

delete_post(auth, id) ==
    \E d \in {dispatch("/api/posts/" \o id, auth)} :
    LET user_id == d.user.user_id
        rows == PostsByIdAndOwner(id, user_id)
    IN  /\ UNCHANGED <<users, books, nextBook, nextPost, nextUid, held, now, reg, sessions>>
        /\ IF d.mw = "rejected" \/ ~security(auth)
           THEN /\ last' = Refused("DELETE", "/api/posts/" \o id, auth, d, id)
                /\ UNCHANGED posts
           ELSE \E db_post \in (IF rows = {} THEN {NoPost} ELSE rows) :
                IF db_post = NoPost
                THEN /\ last' = Response("DELETE", "/api/posts/" \o id, auth, d,
                                         "delete_post", 404, "Post not found", id, <<>>)
                     /\ UNCHANGED posts
                ELSE /\ posts' = posts \ {db_post}
                     /\ last' = Response("DELETE", "/api/posts/" \o id, auth, d,
                                         "delete_post", 200, "Post deleted successfully",
                                         id, <<>>)

-----------------------------------------------------------------------------
(* database.py: get_db, and main.py: register_user one statement at a time.  *)
(* register_user is a plain def: FastAPI runs it on a worker thread, so the  *)
(* statements of two requests interleave at every database round trip.       *)

Workers == 1..MaxWorkers

Idle ==
    [pc |-> "idle", rid |-> 0, user |-> <<>>, db |-> 0, db_user |-> NoRow,
     status |-> 0, detail |-> None, created |-> None]

\* db = SessionLocal(): a new session, owned by request rid
SessionLocal(rid) ==
    [owner |-> rid, state |-> "open", closes |-> 0, usedBy |-> {}, pending |-> {}]

\* Session db used by request rid
Use(db, rid) == [sessions EXCEPT ![db].usedBy = @ \cup {rid}]

\* get_db up to its yield; the request then waits for its first statement
RegStart(w, user) ==
    /\ reg[w].pc \in {"idle", "done"}
    /\ Len(sessions) < MaxRequests
    /\ sessions' = Append(sessions, SessionLocal(Len(sessions) + 1))
    /\ reg' = [reg EXCEPT ![w] = [Idle EXCEPT !.pc = "query", !.rid = Len(sessions) + 1,
                                              !.user = user, !.db = Len(sessions) + 1]]
    /\ UNCHANGED <<Stores, held, now, last>>

\* lines 27-39: the existence check, then db.add of the new row (not yet flushed)
RegQuery(w) ==
    LET r == reg[w]
    IN  /\ r.pc = "query"
        /\ IF existing_user(users, r.user) # {}
           THEN /\ reg' = [reg EXCEPT ![w].pc = "close", ![w].status = 400,
                                      ![w].detail = "Username or email already registered"]
                /\ sessions' = Use(r.db, r.rid)
           ELSE /\ reg' = [reg EXCEPT ![w].pc = "commit",
                                      ![w].db_user = db_user_row(r.user, None)]
                /\ sessions' = [Use(r.db, r.rid) EXCEPT
                                   ![r.db].pending = {db_user_row(r.user, None)}]
        /\ UNCHANGED <<Stores, held, now, last>>

\* line 40: db.commit() flushes the INSERT; the unique indexes decide
RegCommit(w) ==
    LET r == reg[w]
        row == db_user_row(r.user, ToString(nextUid + 1))
    IN  /\ r.pc = "commit"
        /\ nextUid' = nextUid + 1
        /\ IF UniqueViolation(users, row)
           THEN \* IntegrityError: no handler catches it
                /\ reg' = [reg EXCEPT ![w].pc = "close", ![w].status = 500,
                                      ![w].detail = "Internal Server Error",
                                      ![w].db_user = row]
                /\ sessions' = Use(r.db, r.rid)
                /\ UNCHANGED users
           ELSE /\ users' = users \cup {row}
                /\ reg' = [reg EXCEPT ![w].pc = "refresh", ![w].db_user = row,
                                      ![w].created = row.id]
                /\ sessions' = [Use(r.db, r.rid) EXCEPT ![r.db].pending = {}]
        /\ UNCHANGED <<books, posts, nextBook, nextPost, held, now, last>>

\* lines 41-42: db.refresh(db_user) and the return; the round trip may fail
RegRefresh(w) ==
    LET r == reg[w]
    IN  /\ r.pc = "refresh"
        /\ \E reachable \in BOOLEAN :
               reg' = [reg EXCEPT ![w].pc = "close",
                                  ![w].status = IF reachable THEN 200 ELSE 500,
                                  ![w].detail = IF reachable THEN None
                                                ELSE "Internal Server Error"]
        /\ sessions' = Use(r.db, r.rid)
        /\ UNCHANGED <<Stores, held, now, last>>

\* db.close() after the yield, with no try/finally around it
ClosesOnSuccess(status) == status = 200

\* database.py line 26: finally, whatever the handler's outcome
ClosesOnExit(status) == TRUE

\* database.py lines 26-27: db.close() releases the session and drops what
\* it never committed; the response goes out
RegClose(w) ==
    LET r == reg[w]
    IN  /\ r.pc = "close"
        /\ reg' = [reg EXCEPT ![w].pc = "done"]
        /\ sessions' = IF ClosesOnExit(r.status)
                       THEN [sessions EXCEPT ![r.db].state = "closed",
                                             ![r.db].closes = @ + 1,
                                             ![r.db].pending = {}]
                       ELSE sessions
        /\ UNCHANGED <<Stores, held, now, last>>

Handle(w) == RegQuery(w) \/ RegCommit(w) \/ RegRefresh(w) \/ RegClose(w)

-----------------------------------------------------------------------------
(* Time *)

Tick ==
    /\ now < MaxTicks * TickMinutes
    /\ now' = now + TickMinutes
    /\ UNCHANGED <<Stores, held, last, reg, sessions>>

-----------------------------------------------------------------------------
(* Initial state: empty tables, no request served yet *)

NoDispatch == [mw |-> "none", status |-> 0, detail |-> None, user |-> NoClaims]

Init ==
    /\ users = {}
    /\ books = {}
    /\ posts = {}
    /\ nextBook = 0
    /\ nextPost = 0
    /\ nextUid = 0
    /\ held = {}
    /\ now = 0
    /\ last = Response("", "", <<>>, NoDispatch, "none", 0, None, <<>>, <<>>)
    /\ reg = [w \in Workers |-> Idle]
    /\ sessions = <<>>

(* Identity and token lifecycle *)

Next ==
    \/ \E auth \in AnyHeader, user \in UserCreate : register_user(auth, user)
    \/ \E auth \in AnyHeader, user \in UserLogin : login_user(auth, user)
    \/ \E auth \in AuthHeaders : profile(auth)
    \/ \E auth \in AuthHeaders, t \in Presentable :
           refresh_api_token(auth, [refresh_token |-> t])
    \/ Tick

Spec == Init /\ [][Next]_vars

(* Path matching of the middleware *)

NextPaths ==
    \/ \E user \in OneUser : register_user(<<>>, user)
    \/ \E user \in OneLogin : login_user(<<>>, user)
    \/ \E auth \in AuthHeaders : root(auth)
    \/ \E auth \in AuthHeaders, path \in OtherPaths : other_path(path, auth)
    \/ \E auth \in AuthHeaders : profile(auth)
    \/ \E auth \in AuthHeaders, t \in Presentable :
           refresh_api_token(auth, [refresh_token |-> t])
    \/ Tick

SpecPaths == Init /\ [][NextPaths]_vars

(* The book catalog, used by one logged-in client *)

BookIds == {ToString(i) : i \in 1..MaxBooks} \cup {"0"}

BookCreate == [title : {"t1"}, author : {None, "a1"}, price : {5}]

BookUpdate ==
    {[f \in S |-> v[f]] : S \in SUBSET {"title", "author", "price"},
                          v \in [title : {"", "t2"}, author : {"", "a1"}, price : {0, 7}]}

BookClients == {<<"Bearer", t>> : t \in held}

NextBooks ==
    \/ \E user \in OneUser : register_user(<<>>, user)
    \/ \E user \in OneLogin : login_user(<<>>, user)
    \/ \E auth \in BookClients : get_books(auth)
    \/ \E auth \in BookClients, book \in BookCreate : add_book(auth, book)
    \/ \E auth \in BookClients, id \in BookIds : get_book(auth, id)
    \/ \E auth \in BookClients, id \in BookIds, book \in BookCreate : put_book(auth, id, book)
    \/ \E auth \in BookClients, id \in BookIds, book \in BookUpdate :
           patch_book(auth, id, book)
    \/ \E auth \in BookClients, id \in BookIds : delete_book(auth, id)

SpecBooks == Init /\ [][NextBooks]_vars

(* Posts of two users *)

PostIds == {ToString(i) : i \in 1..MaxPosts} \cup {"0"}

PostCreate == [title : {"p1"}, content : {None, "c1"}]

PostUpdate ==
    {[f \in S |-> v[f]] : S \in SUBSET {"title", "content"},
                          v \in [title : {"p2"}, content : {"c1"}]}

PostClients == {<<"Bearer", t>> : t \in held}

NextPosts ==
    \/ \E user \in TwoUsers : register_user(<<>>, user)
    \/ \E user \in TwoLogins : login_user(<<>>, user)
    \/ \E auth \in PostClients, t \in held : refresh_api_token(auth, [refresh_token |-> t])
    \/ \E auth \in PostClients : get_posts(auth)
    \/ \E auth \in PostClients, post \in PostCreate : add_post(auth, post)
    \/ \E auth \in PostClients, id \in PostIds, post \in PostCreate : put_post(auth, id, post)
    \/ \E auth \in PostClients, id \in PostIds, post \in PostUpdate :
           patch_post(auth, id, post)
    \/ \E auth \in PostClients, id \in PostIds : delete_post(auth, id)

SpecPosts == Init /\ [][NextPosts]_vars

(* Every protected endpoint, with every kind of Authorization header *)

ApiBook == [title |-> "t1", author |-> "a1", price |-> 5]
ApiBookUpdate == [price |-> 7]
ApiPost == [title |-> "p1", content |-> "c1"]
ApiPostUpdate == [title |-> "p2"]
ApiIds == {"1"}

NextApi ==
    \/ \E user \in OneUser : register_user(<<>>, user)
    \/ \E user \in OneLogin : login_user(<<>>, user)
    \/ \E auth \in AuthHeaders : profile(auth)
    \/ \E auth \in AuthHeaders : get_books(auth)
    \/ \E auth \in AuthHeaders : add_book(auth, ApiBook)
    \/ \E auth \in AuthHeaders, id \in ApiIds : get_book(auth, id)
    \/ \E auth \in AuthHeaders, id \in ApiIds : put_book(auth, id, ApiBook)
    \/ \E auth \in AuthHeaders, id \in ApiIds : patch_book(auth, id, ApiBookUpdate)
    \/ \E auth \in AuthHeaders, id \in ApiIds : delete_book(auth, id)
    \/ \E auth \in AuthHeaders : get_posts(auth)
    \/ \E auth \in AuthHeaders : add_post(auth, ApiPost)
    \/ \E auth \in AuthHeaders, id \in ApiIds : put_post(auth, id, ApiPost)
    \/ \E auth \in AuthHeaders, id \in ApiIds : patch_post(auth, id, ApiPostUpdate)
    \/ \E auth \in AuthHeaders, id \in ApiIds : delete_post(auth, id)
    \/ Tick

SpecApi == Init /\ [][NextApi]_vars

(* Concurrent registration *)

\* Registrations that compete for the same username or the same email
Registrations ==
    {u \in UserCreate : u.password1 = "pw1" /\ (u.username = "alice" \/ u.email = "al@x.io")}

NextRegister ==
    \/ \E w \in Workers, user \in Registrations : RegStart(w, user)
    \/ \E w \in Workers : RegQuery(w)
    \/ \E w \in Workers : RegCommit(w)
    \/ \E w \in Workers : RegRefresh(w)
    \/ \E w \in Workers : RegClose(w)

SpecRegister == Init /\ [][NextRegister]_vars

\* A worker thread that holds a request runs it to its end
FairRegister == SpecRegister /\ \A w \in Workers : WF_vars(Handle(w))

-----------------------------------------------------------------------------
(* Properties *)

\* A step that serves a request: every action but Tick
RequestStep == now' = now

\* The token verifies and has not expired
Valid(token) == token.sig /\ now <= token.exp

ValidBearer(auth) == Len(auth) >= 2 /\ auth[1] = "Bearer" /\ Valid(auth[2])

Protected(path) ==
    \/ path = "/profile/"
    \/ StartsWith(path, "/api/books/")
    \/ StartsWith(path, "/api/posts/")

\* C1: on /profile/, /api/books/... and /api/posts/... a handler runs only for
\* a request whose Authorization header starts with "Bearer " and whose token
\* decodes; every other request is answered 401 by the middleware, no handler
\* runs and no table changes.
C1_ProtectedNeedsValidBearer ==
    [][(RequestStep /\ Protected(last'.path)) =>
          /\ last'.handler # "none" => ValidBearer(last'.auth)
          /\ ~ValidBearer(last'.auth) =>
                /\ last'.status = 401
                /\ last'.mw = "rejected"
                /\ last'.handler = "none"
                /\ UNCHANGED <<users, books, posts>>]_vars

C1_Witness ==
    /\ last.path = "/api/posts/"
    /\ last.method = "POST"
    /\ last.status = 401
    /\ last.detail = "Invalid or expired token"
    /\ last.auth[2].sig
    /\ posts = {}

\* The caller's identity and the post id of a post request
Caller(r) == r.auth[2].claims.user_id

TargetId(r) == IF r.handler = "delete_post" THEN r.req ELSE r.req[1]

\* C2: PUT, PATCH or DELETE of a post by a caller whose token user_id is not
\* the post's owner answers 404 "Post not found" and leaves the post stored
\* and unchanged; GET /api/posts/ and every post returned by a handler belong
\* to the caller.
C2_OwnerIsolation ==
    [][/\ last'.handler \in {"put_post", "patch_post", "delete_post"} =>
            \A p \in posts :
                (p.id = TargetId(last') /\ p.user_id # Caller(last')) =>
                    /\ last'.status = 404
                    /\ last'.detail = "Post not found"
                    /\ p \in posts'
       /\ last'.handler = "get_posts" =>
            \A item \in last'.data : \A p \in posts :
                p.id = item.id => p.user_id = Caller(last')
       /\ (last'.handler \in {"put_post", "patch_post", "add_post"}
           /\ last'.status = 200) =>
            last'.data.user_id = Caller(last')]_vars

C2_Witness ==
    /\ last.handler = "put_post"
    /\ last.status = 404
    /\ \E u \in users : u.id = Caller(last)
    /\ \E p \in posts : p.id = TargetId(last) /\ p.user_id # Caller(last)

\* C3: no two stored users share a username and no two share an email, and
\* of the registrations in flight no two that created a user used the same
\* username or the same email.
C3_UniqueUsers ==
    /\ \A u1 \in users : \A u2 \in users :
           (u1.username = u2.username \/ u1.email = u2.email) => u1 = u2
    /\ \A w1 \in Workers : \A w2 \in Workers :
           (w1 # w2 /\ reg[w1].created # None /\ reg[w2].created # None) =>
               /\ reg[w1].user.username # reg[w2].user.username
               /\ reg[w1].user.email # reg[w2].user.email

\* Two registrations of one username raced past the existence check
C3_Witness ==
    \E w1 \in Workers : \E w2 \in Workers :
        /\ w1 # w2
        /\ reg[w1].user # <<>> /\ reg[w2].user # <<>>
        /\ reg[w1].created # None
        /\ reg[w2].created = None
        /\ reg[w2].status = 500
        /\ reg[w1].user.username = reg[w2].user.username

ClaimedPublic(path) ==
    \/ path \in {"/", "/login/", "/register/"}
    \/ \E p \in {"/docs", "/redoc", "/openapi.json"} : StartsWith(path, p)

ActualPublic(path) ==
    \/ path = "/"
    \/ \E p \in {"/login/", "/register/", "/docs", "/redoc", "/openapi.json"} :
           StartsWith(path, p)

\* C4 as stated: a path is public iff it equals "/", "/login/" or "/register/"
\* or starts with "/docs", "/redoc" or "/openapi.json".
C4_AsStated ==
    last.mw # "none" => ((last.mw = "public") <=> ClaimedPublic(last.path))

\* C4: a path is public iff it equals "/" or starts with "/login/",
\* "/register/", "/docs", "/redoc" or "/openapi.json"; a request to any other
\* path is forwarded iff it carries a valid bearer token.
C4_PublicPaths ==
    [][RequestStep =>
          /\ (last'.mw = "public") <=> ActualPublic(last'.path)
          /\ (last'.mw = "authenticated") <=>
                 (~ActualPublic(last'.path) /\ ValidBearer(last'.auth))
          /\ (last'.mw = "rejected") => (last'.status = 401 /\ last'.handler = "none")]_vars

C4_Witness ==
    /\ last.path = "/login/x"
    /\ last.auth = <<>>
    /\ last.mw = "public"
    /\ last.status = 404

\* C5: POST /refresh_token is public: a request with a valid, unexpired
\* refresh token in its body and no Authorization header reaches the refresh
\* handler and is answered 200 with a new token pair.
C5_RefreshIsPublic ==
    [][(/\ RequestStep
        /\ last'.path = "/refresh_token"
        /\ last'.auth = <<>>
        /\ Valid(last'.req.refresh_token)
        /\ last'.req.refresh_token.claims.username # None) =>
            /\ last'.status = 200
            /\ last'.handler = "refresh_api_token"
            /\ held' = {last'.data.access_token, last'.data.refresh_token}]_vars

\* C6: every token the service issues carries a username claim.
C6_IssuedTokensHaveUsername ==
    \A t \in held : t.claims.username # None

\* The users a login names with their own password
Owners(req) ==
    {u \in users : /\ (u.username = req.username_or_email \/ u.email = req.username_or_email)
                   /\ u.password = get_password_hash(req.password)}

\* C7: a login with a registered user's username or email and that user's
\* password (credentials that are no other user's) answers 200 with tokens
\* that carry that user's user_id and username; a login with an unknown
\* identifier or a wrong password answers 401 "Incorrect username or password"
\* and issues no token.
C7_Login ==
    [][(RequestStep /\ last'.handler = "login_user") =>
          /\ \A u \in Owners(last'.req) : Owners(last'.req) = {u} =>
                /\ last'.status = 200
                /\ last'.data.access_token.claims.user_id = u.id
                /\ last'.data.access_token.claims.username = u.username
                /\ last'.data.refresh_token.claims.user_id = u.id
                /\ last'.data.refresh_token.claims.username = u.username
          /\ Owners(last'.req) = {} =>
                /\ last'.status = 401
                /\ last'.detail = "Incorrect username or password"
                /\ held' = held]_vars

\* What a PATCH body asks of a stored string or number
AskedStr(body, field, stored) ==
    IF field \in DOMAIN body /\ body[field] # "" THEN body[field] ELSE stored

AskedNum(body, field, stored) ==
    IF field \in DOMAIN body /\ body[field] # 0 THEN body[field] ELSE stored

\* C8: PATCH /api/books/{id}/ of a stored book overwrites title, author and
\* price exactly where the supplied value is truthy and keeps the stored value
\* where the field is omitted, "" or 0; on an unknown id it answers 404
\* "Book not found" and changes no book.
C8_PatchBook ==
    [][last'.handler = "patch_book" =>
          LET id == last'.req[1]
              body == last'.req[2]
          IN  /\ (\A b \in books : b.id # id) =>
                     /\ last'.status = 404
                     /\ last'.detail = "Book not found"
                     /\ books' = books
              /\ \A b \in books : b.id = id =>
                     LET nb == [id |-> b.id,
                                title |-> AskedStr(body, "title", b.title),
                                author |-> AskedStr(body, "author", b.author),
                                price |-> AskedNum(body, "price", b.price)]
                     IN  /\ last'.status = 200
                         /\ last'.data = nb
                         /\ books' = (books \ {b}) \cup {nb}]_vars

\* A PATCH that supplied price 0 (and a new title) kept the stored price
C8_Witness ==
    /\ last.handler = "patch_book"
    /\ last.status = 200
    /\ DOMAIN last.req[2] = {"title", "price"}
    /\ last.req[2]["price"] = 0
    /\ last.data.price = 5
    /\ last.data.title = "t2"

\* C9: a registration whose username or email is in use by a stored user is
\* answered 400 "Username or email already registered" and creates no user.
C9_DuplicateIs400 ==
    \A w \in Workers :
        (/\ reg[w].pc \in {"close", "done"}
         /\ \E u \in users : /\ u.id # reg[w].created
                             /\ (u.username = reg[w].user.username
                                 \/ u.email = reg[w].user.email)) =>
            /\ reg[w].status = 400
            /\ reg[w].detail = "Username or email already registered"
            /\ reg[w].created = None

\* C10: a session is used by the one request that owns it, is closed at most
\* once, holds nothing uncommitted once closed, a row whose commit raised is
\* in no table, and every session handed out is eventually closed.
C10_SessionLifecycle ==
    /\ [](\A i \in DOMAIN sessions :
             /\ sessions[i].closes <= 1
             /\ sessions[i].usedBy \subseteq {sessions[i].owner}
             /\ sessions[i].state = "closed" =>
                    (sessions[i].closes = 1 /\ sessions[i].pending = {}))
    /\ [](\A w \in Workers :
             (reg[w].pc \in {"close", "done"} /\ reg[w].created = None) =>
                 reg[w].db_user \notin users)
    /\ \A i \in 1..MaxRequests :
           (i \in DOMAIN sessions) ~>
               (i \in DOMAIN sessions /\ sessions[i].state = "closed")

\* A session whose request raised at its commit has been closed, and so has
\* one whose request raised after its commit
C10_Witness ==
    /\ \E w \in Workers : /\ reg[w].pc = "done"
                          /\ reg[w].status = 500
                          /\ reg[w].created = None
                          /\ sessions[reg[w].db].state = "closed"
    /\ \E w \in Workers : /\ reg[w].pc = "done"
                          /\ reg[w].status = 500
                          /\ reg[w].created # None
                          /\ sessions[reg[w].db].state = "closed"

====
